---- MODULE Spec2Model ----
(***************************************************************************)
(* knative-conditions: the condition store (Conditions), the ordering of   *)
(* conditions (PartialOrd for Condition) and the ConditionManager that     *)
(* aggregates the dependents of a ConditionType into its happy condition.  *)
(* The ConditionType is the MyCondition enum of                            *)
(* knative/src/duck/v1/source_types.rs: Ready is happy, SinkProvided and   *)
(* Important are #[dependent], Unimportant is non-terminal.                *)
(* knative-derive: the checks and the impls of #[derive(ConditionType)].   *)
(* knative: SinkManager on SourceStatus.                                   *)
(***************************************************************************)
EXTENDS Integers, Sequences, FiniteSets, TLC

VARIABLES
    conds,    \* Conditions.0 : the Vec<Condition> of the status
    clock,    \* the last value chrono::Utc::now() returned
    last,     \* the call that produced this state
    prev,     \* the call before that one
    calls,    \* how many calls were made on the store
    panic,    \* the message of the panic that ended the program, or None
    ret,      \* what the last call returned, None for ()
    built,    \* how the store was built, and from which Vec
    ctype,    \* the ConditionType: what happy() and dependents() return
    sink_uri  \* SourceStatus.sink_uri: the url of Some(url), or None

vars == <<conds, clock, last, prev, calls, panic, ret, built, ctype, sink_uri>>

\* ------------------------------------------------------------------ bounds

\* the number of ConditionManager calls made on one status
MaxCalls == 3

\* the length of the Vec a store is seeded with
MaxSeedLen == 2

\* the number of calls made on a seeded store, or on a ConditionSet
MaxSeedCalls == 1

\* the length N of the dependents array of a ConditionType
MaxDependents == 2

\* the length of the Vec find_unhappy_dependent scans
MaxFindLen == 3

\* ------------------------------------------------------------ value types

\* Option::None of reason, message
None == "None"
\* Option::None of last_transition_time
NoTime == -1

True == "True"
False == "False"
Unknown == "Unknown"
ConditionStatus == {True, False, Unknown}

Error == "Error"
Warning == "Warning"
Info == "Info"
ConditionSeverity == {Error, Warning, Info}

ConditionSeverity_default == Error
ConditionStatus_default == Unknown

\* MyCondition: happy(), dependents() as the derive generates them
happy == "Ready"
dependents == <<"SinkProvided", "Important">>
Unimportant == "Unimportant"
MyCondition == {"Ready", "SinkProvided", "Important", "Unimportant"}

\* the (reason, message) arguments the callers pass
Payloads == {<<"r1", None>>, <<"r2", "m2">>}

\* the advance of the clock before a now() reading: every reading is later
\* than the one before it
StrictTick == {1}

\* ------------------------------------------------------------ ConditionSet

Range(s) == {s[i] : i \in 1..Len(s)}

contains(s, x) == x \in Range(s)

NewSetMessage == "dependents may not contain happy condition"

\* the assert of ConditionSet::new fails
ConditionSet_new_panics(ct) == contains(ct.dependents, ct.happy)

ConditionSet_new(ct) == [happy |-> ct.happy, dependents |-> ct.dependents]

\* is_terminal that forgets the happy type
ConditionSet_is_terminal_dependents_only(set, t) == contains(set.dependents, t)

ConditionSet_is_terminal(set, t) == contains(set.dependents, t) \/ set.happy = t

ConditionSet_severity(set, t) ==
    IF ConditionSet_is_terminal(set, t) THEN Error ELSE Info

\* the ConditionType the derive generates for MyCondition
MyConditionType == [happy |-> happy, dependents |-> dependents]

\* is_terminal and severity of the ConditionSet of MyCondition
is_terminal(t) == ConditionSet_is_terminal(ConditionSet_new(MyConditionType), t)

severity(t) == ConditionSet_severity(ConditionSet_new(MyConditionType), t)

\* -------------------------------------------------------------- Condition

\* Condition::default() with type_ and the fields the caller overrides; its own
\* last_transition_time is a now() reading that set_cond never stores.
Condition(t, status, sev, reason, message, now) ==
    [type_ |-> t, status |-> status, severity |-> sev,
     last_transition_time |-> now, reason |-> reason, message |-> message]

is_true(c) == c.status = True
is_false(c) == c.status = False

time_ord(a, b) ==
    IF a.last_transition_time # NoTime /\ b.last_transition_time # NoTime
    THEN IF a.last_transition_time < b.last_transition_time THEN "Less"
         ELSE IF a.last_transition_time > b.last_transition_time THEN "Greater"
         ELSE "Equal"
    ELSE None

\* partial_cmp that never looks at the transition times
partial_cmp_ignores_time(a, b) ==
    IF a.status = b.status
    THEN "Equal"
    ELSE IF a.status = False \/ (a.status = Unknown /\ b.status = True)
         THEN "Greater"
         ELSE "Less"

partial_cmp(a, b) ==
    IF a.status = b.status
    THEN IF time_ord(a, b) = None THEN "Equal" ELSE time_ord(a, b)
    ELSE IF a.status = False \/ (a.status = Unknown /\ b.status = True)
         THEN "Greater"
         ELSE "Less"

\* ------------------------------------------------------------- Conditions
\* A store value is [conds, clock]: the Vec and the clock the stamps read.

Store(cs, clk) == [conds |-> cs, clock |-> clk]

RECURSIVE position(_, _, _)
position(cs, t, i) ==
    IF i > Len(cs) THEN 0
    ELSE IF cs[i].type_ = t THEN i
    ELSE position(cs, t, i + 1)

\* index of the first condition of type t, 0 for None
get_cond(cs, t) == position(cs, t, 1)

\* set_cond without the check that only the time has changed
set_cond_always_stamps(st, condition, d) ==
    LET i == get_cond(st.conds, condition.type_)
        now == st.clock + d
    IN IF i # 0
       THEN Store([st.conds EXCEPT ![i] =
                      [condition EXCEPT !.last_transition_time = now]],
                  now)
       ELSE Store(Append(st.conds, [condition EXCEPT !.last_transition_time = now]),
                  now)

\* set_cond that replaces an existing entry by removing it and pushing the
\* new one at the end
set_cond_moves_to_end(st, condition, d) ==
    LET i == get_cond(st.conds, condition.type_)
        now == st.clock + d
    IN IF i # 0
       THEN LET test_cond == [st.conds[i] EXCEPT
                    !.last_transition_time = condition.last_transition_time]
            IN IF test_cond = condition
               THEN st
               ELSE Store(Append(SubSeq(st.conds, 1, i - 1) \o SubSeq(st.conds, i + 1, Len(st.conds)),
                                 [condition EXCEPT !.last_transition_time = now]),
                          now)
       ELSE Store(Append(st.conds, [condition EXCEPT !.last_transition_time = now]),
                  now)

\* set_cond that pushes every condition without looking for its type
set_cond_always_pushes(st, condition, d) ==
    LET now == st.clock + d
    IN Store(Append(st.conds, [condition EXCEPT !.last_transition_time = now]), now)

\* set_cond that replaces a stored condition without reading now(): the
\* replaced condition keeps the time that was stored
set_cond_keeps_stored_time(st, condition, d) ==
    LET i == get_cond(st.conds, condition.type_)
        now == st.clock + d
    IN IF i # 0
       THEN LET test_cond == [st.conds[i] EXCEPT
                    !.last_transition_time = condition.last_transition_time]
            IN IF test_cond = condition
               THEN st
               ELSE Store([st.conds EXCEPT ![i] =
                              [condition EXCEPT !.last_transition_time =
                                  st.conds[i].last_transition_time]],
                          now)
       ELSE Store(Append(st.conds, [condition EXCEPT !.last_transition_time = now]),
                  now)

set_cond(st, condition, d) ==
    LET i == get_cond(st.conds, condition.type_)
        now == st.clock + d
    IN IF i # 0
       THEN LET test_cond == [st.conds[i] EXCEPT
                    !.last_transition_time = condition.last_transition_time]
            IN IF test_cond = condition
               THEN st
               ELSE Store([st.conds EXCEPT ![i] =
                              [condition EXCEPT !.last_transition_time = now]],
                          now)
       ELSE Store(Append(st.conds, [condition EXCEPT !.last_transition_time = now]),
                  now)

\* Conditions::mark_true that keeps the reason and message already stored
Conditions_mark_true_keeps_reason(st, t, d) ==
    LET i == get_cond(st.conds, t)
    IN IF i # 0
       THEN set_cond(st, Condition(t, True, ConditionSeverity_default,
                                   st.conds[i].reason, st.conds[i].message, st.clock), d)
       ELSE set_cond(st, Condition(t, True, ConditionSeverity_default, None, None, st.clock), d)

Conditions_mark_true(st, t, d) ==
    set_cond(st, Condition(t, True, ConditionSeverity_default, None, None, st.clock), d)

Conditions_mark_true_with_reason(st, t, reason, message, d) ==
    set_cond(st, Condition(t, True, ConditionSeverity_default, reason, message, st.clock), d)

Conditions_mark_false(st, t, reason, message, d) ==
    set_cond(st, Condition(t, False, ConditionSeverity_default, reason, message, st.clock), d)

Conditions_mark_unknown(st, t, reason, message, d) ==
    set_cond(st, Condition(t, Unknown, ConditionSeverity_default, reason, message, st.clock), d)

\* ------------------------------------------------------- ConditionManager

get_top_level_condition(cs) == cs[get_cond(cs, happy)]

\* is_happy that takes every status but False for happy
is_happy_unless_false(cs) == ~is_false(get_top_level_condition(cs))

is_happy(cs) == is_true(get_top_level_condition(cs))

RECURSIVE reduce(_, _, _)
reduce(cs, i, unhappy) ==
    IF i > Len(cs) THEN unhappy
    ELSE IF cs[i].type_ # happy /\ is_terminal(cs[i].type_) /\ ~is_true(cs[i])
         THEN IF unhappy = 0 THEN reduce(cs, i + 1, i)
              ELSE IF partial_cmp(cs[i], cs[unhappy]) = "Greater"
                   THEN reduce(cs, i + 1, i)
                   ELSE reduce(cs, i + 1, unhappy)
         ELSE reduce(cs, i + 1, unhappy)

\* index of the most unhappy dependent, 0 for None
find_unhappy_dependent(cs) == reduce(cs, 1, 0)

\* the Vec after a find_unhappy_dependent that brings the condition it
\* returns to the front
after_find_unhappy_dependent_reorders(cs) ==
    LET u == find_unhappy_dependent(cs)
    IN IF u = 0 THEN cs
       ELSE <<cs[u]>> \o SubSeq(cs, 1, u - 1) \o SubSeq(cs, u + 1, Len(cs))

\* the Vec after find_unhappy_dependent: iter_mut, filter and reduce hand out
\* references to the elements where they are and write through none of them
after_find_unhappy_dependent(cs) == cs

\* recompute_happiness that mirrors only a False dependent
recompute_happiness_ignores_unknown(st, condition_type, d) ==
    LET u == find_unhappy_dependent(st.conds)
    IN IF u # 0 /\ is_false(st.conds[u])
       THEN set_cond(st, Condition(happy, st.conds[u].status, severity(happy),
                                   st.conds[u].reason, st.conds[u].message, st.clock), d)
       ELSE IF condition_type # happy
            THEN set_cond(st, Condition(happy, True, severity(happy), None, None, st.clock), d)
            ELSE st

\* recompute_happiness that mirrors the status of the dependent, not its reason
recompute_happiness_status_only(st, condition_type, d) ==
    LET u == find_unhappy_dependent(st.conds)
    IN IF u # 0
       THEN set_cond(st, Condition(happy, st.conds[u].status, severity(happy),
                                   None, None, st.clock), d)
       ELSE IF condition_type # happy
            THEN set_cond(st, Condition(happy, True, severity(happy), None, None, st.clock), d)
            ELSE st

\* recompute_happiness that sets the happy condition True whatever type was
\* marked
recompute_happiness_overwrites_happy(st, condition_type, d) ==
    LET u == find_unhappy_dependent(st.conds)
    IN IF u # 0
       THEN set_cond(st, Condition(happy, st.conds[u].status, severity(happy),
                                   st.conds[u].reason, st.conds[u].message, st.clock), d)
       ELSE set_cond(st, Condition(happy, True, severity(happy), None, None, st.clock), d)

recompute_happiness(st, condition_type, d) ==
    LET u == find_unhappy_dependent(st.conds)
    IN IF u # 0
       THEN set_cond(st, Condition(happy, st.conds[u].status, severity(happy),
                                   st.conds[u].reason, st.conds[u].message, st.clock), d)
       ELSE IF condition_type # happy
            THEN set_cond(st, Condition(happy, True, severity(happy), None, None, st.clock), d)
            ELSE st

\* mark_true that does not recompute the happy condition
mark_true_without_recompute(st, t, d) == Conditions_mark_true(st, t, d[1])

mark_true(st, t, d) ==
    recompute_happiness(Conditions_mark_true(st, t, d[1]), t, d[2])

mark_true_with_reason(st, t, reason, message, d) ==
    recompute_happiness(Conditions_mark_true_with_reason(st, t, reason, message, d[1]), t, d[2])

\* mark_false without the write of the happy condition
mark_false_only_type(st, t, reason, message, d) ==
    Conditions_mark_false(st, t, reason, message, d[1])

\* mark_false that forwards the reason but not the message to the happy condition
mark_false_drops_message(st, t, reason, message, d) ==
    LET s1 == Conditions_mark_false(st, t, reason, message, d[1])
    IN IF contains(dependents, t)
       THEN Conditions_mark_false(s1, happy, reason, None, d[2])
       ELSE s1

\* mark_false that, on the happy type, also fails the first dependent
mark_false_fails_dependent(st, t, reason, message, d) ==
    LET s1 == Conditions_mark_false(st, t, reason, message, d[1])
    IN IF contains(dependents, t)
       THEN Conditions_mark_false(s1, happy, reason, message, d[2])
       ELSE IF t = happy
            THEN Conditions_mark_false(s1, dependents[1], reason, message, d[2])
            ELSE s1

mark_false(st, t, reason, message, d) ==
    LET s1 == Conditions_mark_false(st, t, reason, message, d[1])
    IN IF contains(dependents, t)
       THEN Conditions_mark_false(s1, happy, reason, message, d[2])
       ELSE s1

\* mark_unknown that escalates with the reason and message of the False
\* dependent
mark_unknown_escalates_with_dependent_reason(st, t, reason, message, d) ==
    LET s1 == Conditions_mark_unknown(st, t, reason, message, d[1])
        u == find_unhappy_dependent(s1.conds)
    IN IF u # 0
       THEN IF is_false(s1.conds[u]) /\ ~is_false(get_top_level_condition(s1.conds))
            THEN mark_false(s1, happy, s1.conds[u].reason, s1.conds[u].message,
                            <<d[2], d[2]>>)
            ELSE s1
       ELSE IF is_terminal(t)
            THEN Conditions_mark_unknown(s1, happy, reason, message, d[2])
            ELSE s1

\* mark_unknown without the escalation to False
mark_unknown_never_escalates(st, t, reason, message, d) ==
    LET s1 == Conditions_mark_unknown(st, t, reason, message, d[1])
        u == find_unhappy_dependent(s1.conds)
    IN IF u # 0
       THEN s1
       ELSE IF is_terminal(t)
            THEN Conditions_mark_unknown(s1, happy, reason, message, d[2])
            ELSE s1

\* mark_unknown that escalates without looking at the happy condition
mark_unknown_always_escalates(st, t, reason, message, d) ==
    LET s1 == Conditions_mark_unknown(st, t, reason, message, d[1])
        u == find_unhappy_dependent(s1.conds)
    IN IF u # 0
       THEN IF is_false(s1.conds[u])
            THEN mark_false(s1, happy, reason, message, <<d[2], d[2]>>)
            ELSE s1
       ELSE IF is_terminal(t)
            THEN Conditions_mark_unknown(s1, happy, reason, message, d[2])
            ELSE s1

mark_unknown(st, t, reason, message, d) ==
    LET s1 == Conditions_mark_unknown(st, t, reason, message, d[1])
        u == find_unhappy_dependent(s1.conds)
    IN IF u # 0
       THEN IF is_false(s1.conds[u]) /\ ~is_false(get_top_level_condition(s1.conds))
            THEN mark_false(s1, happy, reason, message, <<d[2], d[2]>>)
            ELSE s1
       ELSE IF is_terminal(t)
            THEN Conditions_mark_unknown(s1, happy, reason, message, d[2])
            ELSE s1

\* the expect of get_top_level_condition fails: no condition of the happy type
get_top_level_condition_panics(cs) == get_cond(cs, happy) = 0

ExpectMessage == "top level condition is initialized"

\* mark_unknown reaches get_top_level_condition with a False dependent stored
\* and no happy condition
mark_unknown_panics(st, t, reason, message, d) ==
    LET s1 == Conditions_mark_unknown(st, t, reason, message, d[1])
        u == find_unhappy_dependent(s1.conds)
    IN /\ u # 0
       /\ is_false(s1.conds[u])
       /\ get_top_level_condition_panics(s1.conds)

\* ------------------------------------------------------ ConditionAccessor
\* Every method builds a manager over conditions() and reads the type of the
\* happy condition from get_top_level_condition().

is_ready(cs) == is_happy(cs)

\* ConditionAccessor::mark_false that does not pass the message on
Accessor_mark_false_drops_message(st, reason, message, d) ==
    mark_false(st, get_top_level_condition(st.conds).type_, reason, None, d)

Accessor_mark_false(st, reason, message, d) ==
    mark_false(st, get_top_level_condition(st.conds).type_, reason, message, d)

Accessor_mark_unknown(st, d) ==
    mark_unknown(st, get_top_level_condition(st.conds).type_,
                 "NewObservedGenFailure", "unsuccessfully observed a new generation", d)

Accessor_mark_unknown_with_message(st, reason, message, d) ==
    mark_unknown(st, get_top_level_condition(st.conds).type_, reason, message, d)


\* ------------------------------------------ MyConditionManager (derived)
\* The methods the ConditionType derive generates for a variant other than
\* Ready / Succeeded: mark_<variant>, mark_<variant>_with_reason,
\* mark_not_<variant>.

Manager_mark(st, variant, d) == mark_true(st, variant, d)

Manager_mark_with_reason(st, variant, reason, message, d) ==
    mark_true_with_reason(st, variant, reason, message, d)

Manager_mark_not(st, variant, reason, message, d) ==
    mark_false(st, variant, reason, message, d)

\* ------------------------------------------------------------ the machine

Call(op, t, reason, message) ==
    [op |-> op, type_ |-> t, reason |-> reason, message |-> message]

NoCall == Call("default", happy, None, None)

Built(by, seed) == [by |-> by, seed |-> seed]

\* Conditions::default() that seeds the happy condition only
Conditions_default_happy_only(d) ==
    <<Condition(happy, ConditionStatus_default, ConditionSeverity_default, None, None, 0)>>

\* Conditions::default(): Condition::new for happy, then each dependent, each
\* stamped by its own now() reading.
Conditions_default(d) ==
    <<Condition(happy, ConditionStatus_default, ConditionSeverity_default, None, None, 0),
      Condition(dependents[1], ConditionStatus_default, ConditionSeverity_default, None, None, d[1]),
      Condition(dependents[2], ConditionStatus_default, ConditionSeverity_default, None, None, d[1] + d[2])>>

InitWith(ticks) ==
    \E d \in ticks \X ticks :
        /\ conds = Conditions_default(d)
        /\ clock = d[1] + d[2]
        /\ last = NoCall
        /\ prev = NoCall
        /\ calls = 0
        /\ panic = None
        /\ ret = None
        /\ sink_uri = None
        /\ built = Built("default", <<>>)
        /\ ctype = MyConditionType

\* a call that returns () and leaves the store st
Commit(st, call) ==
    /\ calls < MaxCalls
    /\ panic = None
    /\ conds' = st.conds
    /\ clock' = st.clock
    /\ last' = call
    /\ prev' = last
    /\ calls' = calls + 1
    /\ ret' = None
    /\ UNCHANGED <<panic, built, ctype, sink_uri>>

\* a call that panics with message msg after it has written st
Panic(msg, st, call) ==
    /\ calls < MaxCalls
    /\ panic = None
    /\ panic' = msg
    /\ conds' = st.conds
    /\ clock' = st.clock
    /\ last' = call
    /\ prev' = last
    /\ calls' = calls + 1
    /\ ret' = None
    /\ UNCHANGED <<built, ctype, sink_uri>>

\* a call that returns v and writes nothing
Return(v, call) ==
    /\ calls < MaxCalls
    /\ panic = None
    /\ ret' = v
    /\ last' = call
    /\ prev' = last
    /\ calls' = calls + 1
    /\ UNCHANGED <<conds, clock, panic, built, ctype, sink_uri>>

MarkTrue(t, d) ==
    Commit(mark_true(Store(conds, clock), t, d), Call("mark_true", t, None, None))

MarkTrueWithReason(t, p, d) ==
    Commit(mark_true_with_reason(Store(conds, clock), t, p[1], p[2], d),
           Call("mark_true_with_reason", t, p[1], p[2]))

MarkFalse(t, p, d) ==
    Commit(mark_false(Store(conds, clock), t, p[1], p[2], d),
           Call("mark_false", t, p[1], p[2]))

MarkUnknown(t, p, d) ==
    IF mark_unknown_panics(Store(conds, clock), t, p[1], p[2], d)
    THEN Panic(ExpectMessage,
               Conditions_mark_unknown(Store(conds, clock), t, p[1], p[2], d[1]),
               Call("mark_unknown", t, p[1], p[2]))
    ELSE Commit(mark_unknown(Store(conds, clock), t, p[1], p[2], d),
                Call("mark_unknown", t, p[1], p[2]))

AccessorMarkFalse(p, d) ==
    IF get_top_level_condition_panics(conds)
    THEN Panic(ExpectMessage, Store(conds, clock),
               Call("ConditionAccessor::mark_false", happy, p[1], p[2]))
    ELSE Commit(Accessor_mark_false(Store(conds, clock), p[1], p[2], d),
                Call("ConditionAccessor::mark_false", happy, p[1], p[2]))

AccessorMarkUnknown(d) ==
    IF get_top_level_condition_panics(conds)
    THEN Panic(ExpectMessage, Store(conds, clock),
               Call("ConditionAccessor::mark_unknown", happy, None, None))
    ELSE Commit(Accessor_mark_unknown(Store(conds, clock), d),
                Call("ConditionAccessor::mark_unknown", happy, None, None))

AccessorMarkUnknownWithMessage(p, d) ==
    IF get_top_level_condition_panics(conds)
    THEN Panic(ExpectMessage, Store(conds, clock),
               Call("ConditionAccessor::mark_unknown_with_message", happy, p[1], p[2]))
    ELSE Commit(Accessor_mark_unknown_with_message(Store(conds, clock), p[1], p[2], d),
                Call("ConditionAccessor::mark_unknown_with_message", happy, p[1], p[2]))

\* the mutating calls of ConditionManager and ConditionAccessor
Mutations(payloads, ticks) ==
    \E t \in MyCondition, p \in payloads, d \in ticks \X ticks :
        \/ MarkTrue(t, d)
        \/ MarkTrueWithReason(t, p, d)
        \/ MarkFalse(t, p, d)
        \/ MarkUnknown(t, p, d)
        \/ AccessorMarkFalse(p, d)
        \/ AccessorMarkUnknown(d)
        \/ AccessorMarkUnknownWithMessage(p, d)

NextWith(ticks) == Mutations(Payloads, ticks)

Init == InitWith(StrictTick)
Next == NextWith(StrictTick)
Spec == Init /\ [][Next]_vars

\* ---------------------------------------------------------- seeded stores
\* A store built from a Vec<Condition> of the caller: by with_conditions, or
\* by the Deserialize the struct derives, which checks nothing.

WithConditionsMessage == "Conditions must be initialized with the happy ConditionType"

\* with_conditions without its assert
with_conditions_panics_never(conditions) == FALSE

\* the assert of with_conditions fails: no condition of the happy type
with_conditions_panics(conditions) ==
    ~ \E i \in 1..Len(conditions) : conditions[i].type_ = happy

\* with_conditions that moves the happy conditions to the front
with_conditions_happy_first(conditions) ==
    SelectSeq(conditions, LAMBDA c : c.type_ = happy)
        \o SelectSeq(conditions, LAMBDA c : c.type_ # happy)

with_conditions(conditions) == conditions

\* the type and the status of a condition of a seed
SeedElems == MyCondition \X ConditionStatus

\* the i-th condition of a seed: Condition::new(t) with its status set,
\* created at time i
SeedVec(f) ==
    [i \in 1..Len(f) |->
        Condition(f[i][1], f[i][2], ConditionSeverity_default, None, None, i)]

Seeds == {SeedVec(f) : f \in UNION {[1..n -> SeedElems] : n \in 0..MaxSeedLen}}

\* the (reason, message) arguments of the calls on a seeded store
SeedPayloads == {<<"r1", None>>}

Unbuilt == Call("unbuilt", happy, None, None)

InitSeed ==
    \E seed \in Seeds :
        /\ built = Built("unbuilt", seed)
        /\ conds = <<>>
        /\ clock = Len(seed)
        /\ last = Unbuilt
        /\ prev = Unbuilt
        /\ calls = 0
        /\ panic = None
        /\ ret = None
        /\ sink_uri = None
        /\ ctype = MyConditionType

Default(d) ==
    /\ built = Built("unbuilt", <<>>)
    /\ conds' = Conditions_default(d)
    /\ clock' = d[1] + d[2]
    /\ built' = Built("default", <<>>)
    /\ last' = NoCall
    /\ UNCHANGED <<prev, calls, panic, ret, ctype, sink_uri>>

WithConditions ==
    /\ built.by = "unbuilt"
    /\ built' = Built("with_conditions", built.seed)
    /\ last' = Call("with_conditions", happy, None, None)
    /\ IF with_conditions_panics(built.seed)
       THEN panic' = WithConditionsMessage /\ UNCHANGED conds
       ELSE conds' = with_conditions(built.seed) /\ UNCHANGED panic
    /\ UNCHANGED <<clock, prev, calls, ret, ctype, sink_uri>>

Deserialize ==
    /\ built.by = "unbuilt"
    /\ built' = Built("deserialize", built.seed)
    /\ last' = Call("deserialize", happy, None, None)
    /\ conds' = built.seed
    /\ UNCHANGED <<clock, prev, calls, panic, ret, ctype, sink_uri>>

IsHappy ==
    IF get_top_level_condition_panics(conds)
    THEN Panic(ExpectMessage, Store(conds, clock), Call("is_happy", happy, None, None))
    ELSE Return(is_happy(conds), Call("is_happy", happy, None, None))

GetTopLevelCondition ==
    IF get_top_level_condition_panics(conds)
    THEN Panic(ExpectMessage, Store(conds, clock),
               Call("get_top_level_condition", happy, None, None))
    ELSE Return(get_top_level_condition(conds),
                Call("get_top_level_condition", happy, None, None))

IsReady ==
    IF get_top_level_condition_panics(conds)
    THEN Panic(ExpectMessage, Store(conds, clock), Call("is_ready", happy, None, None))
    ELSE Return(is_ready(conds), Call("is_ready", happy, None, None))

\* a call on a store that was built, within the bound
SeedCall == built.by # "unbuilt" /\ calls < MaxSeedCalls

NextSeed ==
    \/ Default(<<1, 1>>)
    \/ WithConditions
    \/ Deserialize
    \/ SeedCall /\ Mutations(SeedPayloads, StrictTick)
    \/ SeedCall /\ IsHappy
    \/ SeedCall /\ GetTopLevelCondition
    \/ SeedCall /\ IsReady

SpecSeed == InitSeed /\ [][NextSeed]_vars

\* ------------------------------------------------------- condition types
\* ConditionSet::new() for an arbitrary ConditionType over the variants of
\* MyCondition: any variant as happy(), any array of up to MaxDependents
\* variants as dependents().

ConditionTypes ==
    {[happy |-> h, dependents |-> ds] :
        h \in MyCondition,
        ds \in UNION {[1..n -> MyCondition] : n \in 0..MaxDependents}}

InitSet ==
    /\ ctype \in ConditionTypes
    /\ conds = <<>>
    /\ clock = 0
    /\ last = Unbuilt
    /\ prev = Unbuilt
    /\ calls = 0
    /\ panic = None
    /\ ret = None
    /\ sink_uri = None
    /\ built = Built("unbuilt", <<>>)

\* ConditionManager::new, ConditionAccessor::manager: both build the
\* ConditionSet of the type
ManagerNew(op) ==
    /\ last.op = "unbuilt"
    /\ last' = Call(op, ctype.happy, None, None)
    /\ IF ConditionSet_new_panics(ctype)
       THEN panic' = NewSetMessage /\ UNCHANGED ret
       ELSE ret' = ConditionSet_new(ctype) /\ UNCHANGED panic
    /\ UNCHANGED <<conds, clock, prev, calls, built, ctype, sink_uri>>

\* a call on a ConditionSet that was built, within the bound
SetCall == last.op # "unbuilt" /\ calls < MaxSeedCalls

IsTerminal(t) ==
    Return(ConditionSet_is_terminal(ConditionSet_new(ctype), t),
           Call("is_terminal", t, None, None))

Severity(t) ==
    Return(ConditionSet_severity(ConditionSet_new(ctype), t),
           Call("severity", t, None, None))

NextSet ==
    \/ ManagerNew("ConditionManager::new")
    \/ ManagerNew("ConditionAccessor::manager")
    \/ \E t \in MyCondition : SetCall /\ IsTerminal(t)
    \/ \E t \in MyCondition : SetCall /\ Severity(t)

SpecSet == InitSet /\ [][NextSet]_vars

\* ------------------------------------------------------------- set_cond
\* One set_cond of a condition of the caller on a store that holds any Vec
\* of Seeds.

\* the conditions passed to set_cond: any type, status and severity, with or
\* without reason and message, carrying no time or a time earlier than every
\* now() reading
Incoming ==
    {Condition(t, status, sev, p[1], p[2], lt) :
        t \in MyCondition, status \in ConditionStatus, sev \in {Error, Info},
        p \in {<<None, None>>, <<"r1", None>>, <<"r1", "m1">>},
        lt \in {NoTime, 0}}

SetCondCall(condition) ==
    [op |-> "set_cond", type_ |-> condition.type_, reason |-> condition.reason,
     message |-> condition.message, condition |-> condition]

InitUpsert ==
    \E seed \in Seeds :
        /\ conds = seed
        /\ built = Built("deserialize", seed)
        /\ clock = Len(seed)
        /\ last = Call("deserialize", happy, None, None)
        /\ prev = Unbuilt
        /\ calls = 0
        /\ panic = None
        /\ ret = None
        /\ sink_uri = None
        /\ ctype = MyConditionType

SetCond(condition, d) ==
    /\ calls = 0
    /\ Commit(set_cond(Store(conds, clock), condition, d), SetCondCall(condition))

NextUpsert == \E condition \in Incoming, d \in StrictTick : SetCond(condition, d)

SpecUpsert == InitUpsert /\ [][NextUpsert]_vars

\* ------------------------------------------------ find_unhappy_dependent
\* One find_unhappy_dependent on any Vec of up to MaxFindLen conditions,
\* several of one type and conditions without a time included.

\* type and status of the conditions scanned: the two statuses that make a
\* dependent a candidate, and one condition for each way of not being one
\* (the happy type, a True dependent, a non-terminal type)
FindElems ==
    (Range(dependents) \X {False, Unknown})
        \cup {<<happy, False>>, <<dependents[1], True>>, <<Unimportant, False>>}

FindTimes == {NoTime, 1, 2}

FindVec(f) ==
    [i \in 1..Len(f) |->
        Condition(f[i][1][1], f[i][1][2], ConditionSeverity_default, None, None, f[i][2])]

FindStores ==
    {FindVec(f) : f \in UNION {[1..n -> FindElems \X FindTimes] : n \in 0..MaxFindLen}}

InitFind ==
    \E seed \in FindStores :
        /\ conds = seed
        /\ built = Built("deserialize", seed)
        /\ clock = 2
        /\ last = Call("deserialize", happy, None, None)
        /\ prev = Unbuilt
        /\ calls = 0
        /\ panic = None
        /\ ret = None
        /\ sink_uri = None
        /\ ctype = MyConditionType

\* returns the position of the condition found, 0 for None
FindUnhappyDependent ==
    /\ calls = 0
    /\ ret' = find_unhappy_dependent(conds)
    /\ conds' = after_find_unhappy_dependent(conds)
    /\ last' = Call("find_unhappy_dependent", happy, None, None)
    /\ prev' = last
    /\ calls' = calls + 1
    /\ UNCHANGED <<clock, panic, built, ctype, sink_uri>>

NextFind == FindUnhappyDependent

SpecFind == InitFind /\ [][NextFind]_vars

\* ------------------------------------------------------------- properties

\* the stored condition of type t (a store built by Conditions::default()
\* holds happy and every dependent)
cond(t) == conds[get_cond(conds, t)]

IsDependent(t) == contains(dependents, t)

Recomputing(call) == call.op \in {"mark_true", "mark_true_with_reason"}

AllDependentsTrue ==
    \A t \in Range(dependents) : get_cond(conds, t) # 0 /\ is_true(cond(t))

SomeDependentFalse ==
    \E t \in Range(dependents) : get_cond(conds, t) # 0 /\ is_false(cond(t))

\* C1: in every reachable state, if the happy condition is True then every
\* dependent condition is True.
C1_HappyTrueOnlyIfDependentsTrue ==
    is_happy(conds) => AllDependentsTrue

\* C2: in every reachable state, if some dependent condition is False then the
\* happy condition is False.
C2_FalseDependentNeverMasked ==
    SomeDependentFalse => is_false(get_top_level_condition(conds))

\* C2 witness: a dependent is False right after a call tried to mark the happy
\* type itself true or unknown.
C2_Witness ==
    /\ SomeDependentFalse
    /\ last.type_ = happy
    /\ last.op \in {"mark_true", "mark_unknown"}
    /\ is_false(get_top_level_condition(conds))

\* C3: after mark_unknown(t, reason, message) on a dependent t, when no other
\* dependent is False, t is Unknown and the happy condition is Unknown with the
\* given reason and message.
C3_MarkUnknownDependentSetsHappyUnknown ==
    (/\ last.op = "mark_unknown"
     /\ IsDependent(last.type_)
     /\ \A o \in Range(dependents) \ {last.type_} : ~is_false(cond(o)))
    => /\ cond(last.type_).status = Unknown
       /\ get_top_level_condition(conds).status = Unknown
       /\ get_top_level_condition(conds).reason = last.reason
       /\ get_top_level_condition(conds).message = last.message

\* C4: a step mark_unknown(B, ..) with B not the happy type, taken where some
\* dependent A # B is False and the happy condition is False, leaves the happy
\* condition as it was: status False, same reason, message, last_transition_time.
C4_UnknownDoesNotMaskFalse ==
    [][(/\ last'.op = "mark_unknown"
        /\ last'.type_ # happy
        /\ is_false(get_top_level_condition(conds))
        /\ \E A \in Range(dependents) \ {last'.type_} : is_false(cond(A)))
       => /\ get_top_level_condition(conds') = get_top_level_condition(conds)
          /\ is_false(get_top_level_condition(conds'))]_vars

\* C4 witness: mark_unknown(B) has run on a type other than happy while another
\* dependent is False.
C4_Witness ==
    /\ last.op = "mark_unknown"
    /\ last.type_ # happy
    /\ \E A \in Range(dependents) \ {last.type_} : is_false(cond(A))
    /\ cond(last.type_).status = Unknown
    /\ is_false(get_top_level_condition(conds))

\* C5: after mark_false(t, reason, message) on a dependent t, the condition of
\* type t and the happy condition are both False with the given reason and
\* message.
C5_MarkFalseDependentForcesHappy ==
    (last.op = "mark_false" /\ IsDependent(last.type_))
    => /\ cond(last.type_).status = False
       /\ cond(last.type_).reason = last.reason
       /\ cond(last.type_).message = last.message
       /\ get_top_level_condition(conds).status = False
       /\ get_top_level_condition(conds).reason = last.reason
       /\ get_top_level_condition(conds).message = last.message

\* C5 witness: mark_false has run on one dependent while the other is True.
C5_Witness ==
    /\ last.op = "mark_false"
    /\ IsDependent(last.type_)
    /\ \E o \in Range(dependents) \ {last.type_} : is_true(cond(o))
    /\ is_false(get_top_level_condition(conds))

\* C6: right after mark_true(t) or mark_true_with_reason(t, ..) with t not the
\* happy type, is_happy holds iff every dependent is True, and when it holds
\* the happy condition has no reason and no message.
C6_ReadyIffAllDependentsTrue ==
    (Recomputing(last) /\ last.type_ # happy)
    => /\ is_happy(conds) <=> AllDependentsTrue
       /\ is_happy(conds) => /\ get_top_level_condition(conds).reason = None
                             /\ get_top_level_condition(conds).message = None

\* C6 witness: the call that made the last dependent True has made the resource
\* ready.
C6_Witness ==
    /\ Recomputing(last)
    /\ IsDependent(last.type_)
    /\ Recomputing(prev)
    /\ IsDependent(prev.type_)
    /\ prev.type_ # last.type_
    /\ is_happy(conds)

\* C7: right after mark_true(t) or mark_true_with_reason(t, ..) for any t, if a
\* dependent is not True then the happy condition has the status, reason and
\* message of the dependent find_unhappy_dependent selects: a False one if any
\* dependent is False, and none of the same status transitioned later.
C7_HappyMirrorsMostUnhappyDependent ==
    (Recomputing(last) /\ ~AllDependentsTrue)
    => LET u == find_unhappy_dependent(conds)
           h == get_top_level_condition(conds)
       IN /\ u # 0
          /\ IsDependent(conds[u].type_)
          /\ h.status = conds[u].status
          /\ h.reason = conds[u].reason
          /\ h.message = conds[u].message
          /\ SomeDependentFalse => h.status = False
          /\ ~SomeDependentFalse => h.status = Unknown
          /\ \A t \in Range(dependents) :
                cond(t).status = conds[u].status
                => cond(t).last_transition_time <= conds[u].last_transition_time

\* C7 witness: a recomputing call on one dependent while the other is
\* unhappy and carries a reason.
C7_Witness ==
    /\ Recomputing(last)
    /\ \E t \in Range(dependents) : ~is_true(cond(t)) /\ cond(t).reason # None
    /\ get_top_level_condition(conds).reason # None

TwoDependentsFalse ==
    \A t \in Range(dependents) : get_cond(conds, t) # 0 /\ is_false(cond(t))

\* the happy condition has the reason and message of the False dependent with
\* the later last_transition_time
HappyMirrorsLaterFalse ==
    \A t \in Range(dependents) :
        (\A o \in Range(dependents) \ {t} :
            cond(o).last_transition_time < cond(t).last_transition_time)
        => /\ get_top_level_condition(conds).reason = cond(t).reason
           /\ get_top_level_condition(conds).message = cond(t).message

\* C8 as claimed: in every reachable state in which two dependents are both
\* False, the happy condition has the reason and message of the one with the
\* later last_transition_time.
C8_TieBreakInEveryState ==
    TwoDependentsFalse => HappyMirrorsLaterFalse

\* C8 as amended: the happy condition has the reason and message of the later
\* False dependent in every state with two False dependents that is reached by
\* mark_true or mark_true_with_reason (any type), or by a mark_false of a
\* dependent that changed that dependent's stored condition.
C8_TieBreakAfterRecomputeOrTransition ==
    [][(/\ \/ Recomputing(last')
           \/ /\ last'.op = "mark_false"
              /\ IsDependent(last'.type_)
              /\ conds'[get_cond(conds', last'.type_)] # cond(last'.type_)
        /\ TwoDependentsFalse')
       => HappyMirrorsLaterFalse']_vars

\* C8 witness: a recomputing call has run while both dependents are False with
\* different reasons.
C8_Witness ==
    /\ Recomputing(last)
    /\ TwoDependentsFalse
    /\ cond(dependents[1]).reason # cond(dependents[2]).reason
    /\ cond(dependents[1]).last_transition_time < cond(dependents[2]).last_transition_time

\* C9: when mark_true(t) is called twice in a row, for any type t, the second
\* call changes no last_transition_time of a stored condition.
C9_MarkTrueTwiceKeepsTimes ==
    [][(last.op = "mark_true" /\ last'.op = "mark_true" /\ last'.type_ = last.type_)
       => /\ Len(conds') = Len(conds)
          /\ \A i \in 1..Len(conds) :
                conds'[i].last_transition_time = conds[i].last_transition_time]_vars

\* C10: after mark_true(t) on a dependent t followed by
\* mark_true_with_reason(u, reason, message) on a non-terminal u, issuing the two
\* calls again with the same arguments, through the ConditionManager or through
\* the derived mark_<variant> methods, leaves every stored condition as it was.
C10_ReissueLeavesStoreEqual ==
    (/\ prev.op = "mark_true"
     /\ IsDependent(prev.type_)
     /\ last.op = "mark_true_with_reason"
     /\ ~is_terminal(last.type_))
    => \A d \in StrictTick \X StrictTick :
          LET s0 == Store(conds, clock)
              s1 == mark_true(s0, prev.type_, d)
              s2 == mark_true_with_reason(s1, last.type_, last.reason, last.message, d)
              g1 == Manager_mark(s0, prev.type_, d)
              g2 == Manager_mark_with_reason(g1, last.type_, last.reason, last.message, d)
          IN /\ s1.conds = conds
             /\ s2.conds = conds
             /\ g1.conds = conds
             /\ g2.conds = conds

\* C10 witness: mark_true(Important) then
\* mark_true_with_reason(Unimportant, ..) were the last two calls.
C10_Witness ==
    /\ prev.op = "mark_true"
    /\ prev.type_ = "Important"
    /\ last.op = "mark_true_with_reason"
    /\ last.type_ = Unimportant
    /\ last.message # None
    /\ get_cond(conds, Unimportant) # 0
    /\ cond(Unimportant).reason = last.reason
    /\ is_true(cond("Important"))

\* the sequence of types the store iterates over
types(cs) == [i \in 1..Len(cs) |-> cs[i].type_]

\* C11: every ConditionManager mutation keeps the stored types in first-seen
\* order: the types present before the call stay at their positions (an
\* update never moves an entry and nothing is removed), and the only entry a
\* call can add is the type it marks, not stored before, at the end.
C11_OrderIsFirstSeen ==
    [][LET old == types(conds)
           new == types(conds')
       IN \/ new = old
          \/ /\ get_cond(conds, last'.type_) = 0
             /\ new = Append(old, last'.type_)]_vars

\* a type not in the default store was appended, and an entry stored before
\* it was updated afterwards
C11_Witness ==
    /\ types(conds) = <<happy, dependents[1], dependents[2], Unimportant>>
    /\ prev.type_ = Unimportant
    /\ last.type_ = dependents[1]
    /\ last.op = "mark_false"
    /\ is_false(conds[2])

\* status, reason and message of the happy condition of a store
HappyView(cs) ==
    LET h == get_top_level_condition(cs)
    IN <<h.status, h.reason, h.message>>

\* C13: mark_true, mark_true_with_reason and mark_false of a type that is
\* neither the happy type nor a dependent leave the status, reason and
\* message of the happy condition as they were before the call.
C13_NonTerminalMarkKeepsHappy ==
    [][(/\ ~is_terminal(last'.type_)
        /\ last'.op \in {"mark_true", "mark_true_with_reason", "mark_false"})
       => HappyView(conds') = HappyView(conds)]_vars

C15_AccessorMarkFalseWritesOnlyHappy ==
    [][last'.op = "ConditionAccessor::mark_false" =>
          /\ Len(conds') = Len(conds)
          /\ \A i \in 1..Len(conds) :
                IF conds[i].type_ = happy
                THEN /\ conds'[i].type_ = happy
                     /\ conds'[i].status = False
                     /\ conds'[i].reason = last'.reason
                     /\ conds'[i].message = last'.message
                ELSE conds'[i] = conds[i]]_vars

\* ConditionAccessor::mark_false was called with every dependent True, and
\* the happy condition is False with the message of the call
C15_Witness ==
    /\ last.op = "ConditionAccessor::mark_false"
    /\ last.message # None
    /\ AllDependentsTrue
    /\ is_false(cond(happy))
    /\ cond(happy).message = last.message

\* no two conditions of cs share a type
NoDuplicateTypes(cs) ==
    \A i, j \in 1..Len(cs) : cs[i].type_ = cs[j].type_ => i = j

\* C12: a store built by Conditions::default(), or from a Vec (the empty one
\* included) in which no two conditions share a type, holds no two
\* conditions of one type after any sequence of calls.
C12_TypesStayUnique ==
    NoDuplicateTypes(built.seed) => NoDuplicateTypes(conds)

\* a call appended a type to a store seeded with two conditions of different
\* types
C12_Witness ==
    /\ built.by = "with_conditions"
    /\ Len(built.seed) = 2
    /\ NoDuplicateTypes(built.seed)
    /\ calls = 1
    /\ Len(conds) = 3
    /\ NoDuplicateTypes(conds)

\* C16: is_happy() returns true exactly when the status of the stored happy
\* condition is True, and get_top_level_condition() returns that condition;
\* on a store with no condition of the happy type both panic with the expect
\* message and return nothing.
C16_IsHappyIffTrueElsePanics ==
    last.op \in {"is_happy", "get_top_level_condition"} =>
        IF get_cond(conds, happy) = 0
        THEN panic = ExpectMessage /\ ret = None
        ELSE /\ panic = None
             /\ last.op = "is_happy" => ret = (cond(happy).status = True)
             /\ last.op = "get_top_level_condition" => ret = cond(happy)

\* is_happy() was called on a store that holds conditions, none of the happy
\* type, and panicked
C16_Witness ==
    /\ last.op = "is_happy"
    /\ conds # <<>>
    /\ get_cond(conds, happy) = 0
    /\ panic = ExpectMessage

\* the store was built by Conditions::default(), or by a with_conditions that
\* did not panic
ProperlyBuilt ==
    \/ built.by = "default"
    \/ built.by = "with_conditions" /\ panic # WithConditionsMessage

\* C17: on a store built by Conditions::default() or accepted by
\* with_conditions (MyCondition's dependents do not contain its happy type),
\* no call of ConditionManager or ConditionAccessor panics, and the store
\* holds a condition of the happy type in every reachable state.
C17_NoPanicOnProperlyBuiltStore ==
    ProperlyBuilt => panic = None /\ get_cond(conds, happy) # 0

\* mark_unknown ran on a store accepted by with_conditions that holds a False
\* dependent, the case in which it calls get_top_level_condition, and
\* returned
C17_Witness ==
    /\ built.by = "with_conditions"
    /\ last.op = "mark_unknown"
    /\ IsDependent(last.type_)
    /\ SomeDependentFalse
    /\ panic = None

\* some condition of the Vec has the happy type
HasHappy(conditions) ==
    \E i \in 1..Len(conditions) : conditions[i].type_ = happy

\* C18: with_conditions panics on a Vec with no condition of the happy type
\* and builds no store; on a Vec that holds one it returns a store with the
\* same conditions in the same order.
C18_WithConditionsAcceptsIffHappy ==
    last.op = "with_conditions" =>
        IF HasHappy(built.seed)
        THEN panic = None /\ conds = built.seed
        ELSE panic = WithConditionsMessage /\ conds = <<>>

\* with_conditions accepted a Vec whose happy condition is not the first
\* element and stored it as it was
C18_Witness ==
    /\ last.op = "with_conditions"
    /\ Len(built.seed) = 2
    /\ built.seed[1].type_ # happy
    /\ built.seed[2].type_ = happy
    /\ panic = None
    /\ conds = built.seed

\* C19: with_conditions fails on a Vec that holds two conditions of one
\* type; it never returns a store with a duplicated type.
C19_DuplicateSeedRejected ==
    (last.op = "with_conditions" /\ ~NoDuplicateTypes(built.seed)) => panic # None

\* C20: building the ConditionSet of a type (ConditionManager::new,
\* ConditionAccessor::manager) panics exactly when the dependents of the type
\* contain its happy type; on the set it builds otherwise, is_terminal(t) is
\* true exactly for the happy type and the dependents, and severity(t) is
\* Error for exactly those types and Info for every other.
C20_ConditionSetNewAndTerminal ==
    LET dependent(t) ==
            \E i \in 1..Len(ctype.dependents) : ctype.dependents[i] = t
        terminal(t) == t = ctype.happy \/ dependent(t)
    IN /\ last.op # "unbuilt" =>
            panic = IF dependent(ctype.happy) THEN NewSetMessage ELSE None
       /\ last.op = "is_terminal" => ret = terminal(last.type_)
       /\ last.op = "severity" =>
            ret = IF terminal(last.type_) THEN Error ELSE Info

\* ConditionManager::new panicked for a type whose second dependent is its
\* happy type
C20_Witness ==
    /\ last.op = "ConditionManager::new"
    /\ Len(ctype.dependents) = 2
    /\ ctype.dependents[1] # ctype.happy
    /\ ctype.dependents[2] = ctype.happy
    /\ panic = NewSetMessage

\* C21: every stored condition carries the severity of its type: Error for
\* the happy type and the dependents, Info for a non-terminal type.
C21_StoredSeverityIsTypeDefault ==
    \A i \in 1..Len(conds) : conds[i].severity = severity(conds[i].type_)

\* the position of the first condition of type t in cs, 0 when there is none
FirstOfType(cs, t) ==
    IF \E i \in 1..Len(cs) : cs[i].type_ = t
    THEN CHOOSE i \in 1..Len(cs) :
            cs[i].type_ = t /\ \A j \in 1..(i - 1) : cs[j].type_ # t
    ELSE 0

\* a and b agree on status, severity, reason and message
SameValue(a, b) ==
    /\ a.status = b.status
    /\ a.severity = b.severity
    /\ a.reason = b.reason
    /\ a.message = b.message

\* C22: set_cond(c) appends c, stamped with a new now() reading, when the
\* store holds no condition of c's type; leaves the store as it is, stamps
\* included, when the stored condition of that type has c's status, severity,
\* reason and message; and otherwise replaces that condition at its position
\* by c stamped with a new now() reading. The time c carries is never stored.
C22_SetCondUpserts ==
    [][last'.op = "set_cond" =>
          LET c == last'.condition
              i == FirstOfType(conds, c.type_)
              stamped == [c EXCEPT !.last_transition_time = clock']
          IN IF i = 0
             THEN clock' > clock /\ conds' = Append(conds, stamped)
             ELSE IF SameValue(conds[i], c)
                  THEN conds' = conds
                  ELSE clock' > clock /\ conds' = [conds EXCEPT ![i] = stamped]]_vars

\* set_cond was called with a condition equal in value to the stored one of
\* its type but carrying another time, and the store is the one it was
C22_Witness ==
    /\ last.op = "set_cond"
    /\ FirstOfType(built.seed, last.type_) # 0
    /\ SameValue(built.seed[FirstOfType(built.seed, last.type_)], last.condition)
    /\ built.seed[FirstOfType(built.seed, last.type_)].last_transition_time
          # last.condition.last_transition_time
    /\ conds = built.seed

\* C23: for a type t other than the happy type, mark_true(t) leaves the
\* stored condition of t True with no reason and no message, and
\* mark_true_with_reason(t, reason, message) leaves it True with exactly that
\* reason and message.
C23_MarkTrueClearsOrKeepsReason ==
    /\ (last.op = "mark_true" /\ last.type_ # happy) =>
          /\ get_cond(conds, last.type_) # 0
          /\ cond(last.type_).status = True
          /\ cond(last.type_).reason = None
          /\ cond(last.type_).message = None
    /\ (last.op = "mark_true_with_reason" /\ last.type_ # happy) =>
          /\ get_cond(conds, last.type_) # 0
          /\ cond(last.type_).status = True
          /\ cond(last.type_).reason = last.reason
          /\ cond(last.type_).message = last.message

\* mark_true(t) was called on a dependent that mark_false had left with a
\* reason and a message, and both are gone
C23_Witness ==
    /\ prev.op = "mark_false"
    /\ prev.message # None
    /\ IsDependent(prev.type_)
    /\ last.op = "mark_true"
    /\ last.type_ = prev.type_
    /\ cond(last.type_).status = True
    /\ cond(last.type_).reason = None
    /\ cond(last.type_).message = None

\* C24: mark_true_with_reason(happy, reason, message) with every dependent
\* True leaves the happy condition True with that reason and message; and
\* mark_true(happy) with some dependent not True leaves the happy condition
\* not True.
C24_MarkHappyTrue ==
    /\ (last.op = "mark_true_with_reason" /\ last.type_ = happy /\ AllDependentsTrue) =>
          /\ cond(happy).status = True
          /\ cond(happy).reason = last.reason
          /\ cond(happy).message = last.message
    /\ (last.op = "mark_true" /\ last.type_ = happy /\ ~AllDependentsTrue) =>
          ~is_true(cond(happy))

\* mark_true_with_reason(happy, ..) with a message was called when every
\* dependent was True, and the happy condition carries the message
C24_Witness ==
    /\ last.op = "mark_true_with_reason"
    /\ last.type_ = happy
    /\ last.message # None
    /\ AllDependentsTrue
    /\ is_true(cond(happy))
    /\ cond(happy).message = last.message

\* C25: the store Conditions::default() builds holds one condition per
\* expected type, the happy type first and the dependents after it in
\* declared order, each Unknown with no reason and no message; is_ready()
\* called on it returns false.
C25_DefaultStore ==
    /\ last.op = "default" =>
          /\ types(conds) = <<happy>> \o dependents
          /\ \A i \in 1..Len(conds) :
                /\ conds[i].status = Unknown
                /\ conds[i].reason = None
                /\ conds[i].message = None
    /\ (last.op = "is_ready" /\ prev.op = "default") => ret = FALSE

\* is_ready() was called on the store Conditions::default() built and
\* returned false
C25_Witness ==
    /\ last.op = "is_ready"
    /\ prev.op = "default"
    /\ types(conds) = <<happy>> \o dependents
    /\ panic = None
    /\ ret = FALSE

\* the condition at position i of cs has a dependent type and is not True
Candidate(cs, i) == IsDependent(cs[i].type_) /\ cs[i].status # True

\* C26: find_unhappy_dependent returns None exactly when no stored condition
\* has a dependent type and a status other than True. Otherwise it returns
\* such a condition, False if any such condition is False; no such condition
\* of the same status has a later time than the one returned, and none of
\* the same status and time stands before it in the Vec. (A later time is a
\* relation between two conditions that both carry a time.)
C26_FindReturnsMostUnhappy ==
    last.op = "find_unhappy_dependent" =>
        LET cs == built.seed
            u == ret
            same(j) == Candidate(cs, j) /\ cs[j].status = cs[u].status
        IN IF \A i \in 1..Len(cs) : ~Candidate(cs, i)
           THEN u = 0
           ELSE /\ u \in 1..Len(cs)
                /\ Candidate(cs, u)
                /\ (\E j \in 1..Len(cs) : Candidate(cs, j) /\ cs[j].status = False)
                      => cs[u].status = False
                /\ \A j \in 1..Len(cs) :
                      (/\ same(j)
                       /\ cs[j].last_transition_time # NoTime
                       /\ cs[u].last_transition_time # NoTime)
                      => cs[j].last_transition_time <= cs[u].last_transition_time
                /\ \A j \in 1..(u - 1) :
                      same(j) => cs[j].last_transition_time # cs[u].last_transition_time

\* three candidates of one type: the later of two False ones was returned,
\* past an Unknown one with the latest time
C26_Witness ==
    /\ last.op = "find_unhappy_dependent"
    /\ Len(built.seed) = 3
    /\ \A i \in 1..3 : built.seed[i].type_ = dependents[1]
    /\ built.seed[1].status = False /\ built.seed[1].last_transition_time = 1
    /\ built.seed[2].status = Unknown /\ built.seed[2].last_transition_time = 2
    /\ built.seed[3].status = False /\ built.seed[3].last_transition_time = 2
    /\ ret = 3

C28_NoMatchMeansAllDependentsTrue ==
    (/\ built.by = "with_conditions"
     /\ panic = None
     /\ find_unhappy_dependent(conds) = 0)
    => AllDependentsTrue

\* C29: a single mark_true, mark_true_with_reason, mark_false or
\* mark_unknown changes the last_transition_time of no stored condition whose
\* status, severity, reason and message are the same after the call as
\* before it.
C29_TimeChangesOnlyWithValue ==
    [][last'.op \in {"mark_true", "mark_true_with_reason", "mark_false", "mark_unknown"} =>
          \A i \in 1..Len(conds) :
              SameValue(conds[i], conds'[i]) =>
                  conds'[i].last_transition_time = conds[i].last_transition_time]_vars

\* C30: when mark_unknown(t, reason, message) is called on a store that
\* holds a happy condition while a dependent other than t is False, and the
\* happy condition is not False once t has been written (t is the happy type,
\* or the happy condition was not False), the happy condition ends False with
\* the reason and message of the call.
C30_MarkUnknownEscalatesWithOwnReason ==
    [][(/\ last'.op = "mark_unknown"
        /\ get_cond(conds, happy) # 0
        /\ \E t \in Range(dependents) :
              t # last'.type_ /\ get_cond(conds, t) # 0 /\ is_false(cond(t))
        /\ last'.type_ = happy \/ ~is_false(cond(happy)))
       => /\ panic' = None
          /\ conds'[get_cond(conds', happy)].status = False
          /\ conds'[get_cond(conds', happy)].reason = last'.reason
          /\ conds'[get_cond(conds', happy)].message = last'.message]_vars

\* mark_unknown of a dependent was called while the other dependent was
\* False, with no reason, and the happy condition Unknown; the happy
\* condition is False with the reason of the call
C30_Witness ==
    /\ last.op = "mark_unknown"
    /\ last.type_ = dependents[2]
    /\ built.by = "with_conditions"
    /\ Len(built.seed) = 2
    /\ built.seed[1].type_ = happy /\ built.seed[1].status = Unknown
    /\ built.seed[2].type_ = dependents[1] /\ built.seed[2].status = False
    /\ cond(dependents[1]).reason # last.reason
    /\ is_false(cond(happy))
    /\ cond(happy).reason = last.reason

\* C31: once mark_true has been applied to every dependent, one call after
\* the other with no other operation in between, is_happy() is true, whatever
\* mark_false / mark_unknown / mark_true calls preceded them on the default
\* store.
C31_MarkTrueOnEveryDependentRecovers ==
    (/\ last.op = "mark_true"
     /\ prev.op = "mark_true"
     /\ {last.type_, prev.type_} = Range(dependents))
    => is_happy(conds)

\* an earlier call (it moved the clock past the default store's times) came
\* before the two mark_true calls, and the store is happy after them
C31_Witness ==
    /\ calls = MaxCalls
    /\ prev.op = "mark_true" /\ prev.type_ = dependents[2]
    /\ last.op = "mark_true" /\ last.type_ = dependents[1]
    /\ get_cond(conds, Unimportant) = 0
    /\ cond(dependents[2]).last_transition_time > 2
    /\ cond(dependents[1]).last_transition_time > cond(dependents[2]).last_transition_time
    /\ is_happy(conds)

ManagerOps == {"mark_true", "mark_true_with_reason", "mark_false", "mark_unknown"}

\* the positions of cs2 that are new or hold another value than in cs1
Touched(cs1, cs2) ==
    {i \in 1..Len(cs2) : i > Len(cs1) \/ cs2[i] # cs1[i]}

\* C32: a ConditionManager operation applied to a type t changes at most two
\* entries of the store, one of type t and one of the happy type; no entry is
\* removed or moved, and every entry of another type keeps its status,
\* severity, reason, message, last_transition_time and position.
C32_ManagerOpTouchesOnlyTypeAndHappy ==
    [][(last'.op \in ManagerOps /\ calls' = calls + 1)
       => /\ Len(conds') >= Len(conds)
          /\ \A i \in Touched(conds, conds') :
                conds'[i].type_ \in {last'.type_, happy}
          /\ \A i, j \in Touched(conds, conds') :
                conds'[i].type_ = conds'[j].type_ => i = j]_vars

\* mark_false on a dependent of a store seeded with a True happy condition
\* and the other dependent: the entry of the type is added and the happy
\* entry changed, the entry of the other dependent stays as it was
C32_Witness ==
    /\ last.op = "mark_false"
    /\ last.type_ = dependents[1]
    /\ panic = None
    /\ built.by = "with_conditions"
    /\ Len(built.seed) = 2
    /\ built.seed[1].type_ = happy /\ built.seed[1].status = True
    /\ built.seed[2].type_ = dependents[2]
    /\ Len(conds) = 3
    /\ conds[1] # built.seed[1]
    /\ conds[2] = built.seed[2]
    /\ conds[3].type_ = dependents[1]

\* ------------------------------------------------------ non-decreasing clock
\* The operations on the default store under a now() that may return the
\* same instant twice: each reading is the previous one or one later. The
\* callers pass one reason, as on the seeded stores.

MaxClockCalls == 2

LooseTick == {0, 1}

InitClock == InitWith(LooseTick)

NextClock == calls < MaxClockCalls /\ Mutations(SeedPayloads, LooseTick)

SpecClock == InitClock /\ [][NextClock]_vars

\* C33: with a non-decreasing now(), no stored condition's
\* last_transition_time decreases in a ConditionManager operation, and a
\* condition whose value the operation changed (or added) carries afterwards a
\* last_transition_time greater than or equal to that of every condition the
\* operation did not change.
C33_TimesNeverDecrease ==
    [][calls' = calls + 1
       => /\ \A i \in 1..Len(conds) :
                /\ i <= Len(conds')
                /\ conds'[i].type_ = conds[i].type_
                /\ conds'[i].last_transition_time >= conds[i].last_transition_time
          /\ \A i \in Touched(conds, conds') :
                \A j \in (1..Len(conds')) \ Touched(conds, conds') :
                    conds'[i].last_transition_time >= conds'[j].last_transition_time]_vars

\* two now() readings of one operation returned the same instant: the
\* dependent and the happy condition changed by a mark_false carry the same
\* time, which is the time of an unchanged condition too
C33_Witness ==
    /\ last.op = "mark_false"
    /\ last.type_ = dependents[1]
    /\ is_false(cond(dependents[1]))
    /\ is_false(cond(happy))
    /\ cond(happy).last_transition_time = cond(dependents[1]).last_transition_time
    /\ cond(dependents[2]).status = Unknown
    /\ cond(dependents[2]).last_transition_time = cond(happy).last_transition_time

\* ------------------------------------------------- #[derive(ConditionType)]
\* The derive macro on a declaration of the caller: an enum of up to
\* MaxVariants variants, each with an identifier and a list of attributes
\* (an attribute is the sequence of the segments of its path), or a struct or
\* a union. An accepted declaration yields the generated ConditionType and
\* Default impls, on which happy(), default(), dependents() and
\* ConditionManager::new are then called.

MaxVariants == 3

REQUIRED_VARIANTS == <<"Ready", "Succeeded">>

VariantIdents == {"Ready", "Succeeded", "SinkProvided", "Important"}

VariantAttrs == {<<>>, <<<<"dependent">>>>, <<<<"doc">>>>}

Variant(ident, attrs) == [ident |-> ident, attrs |-> attrs]

Variants == {Variant(ident, attrs) : ident \in VariantIdents, attrs \in VariantAttrs}

DeriveInput(data, variants) == [data |-> data, variants |-> variants]

DeriveInputs ==
    {DeriveInput("Enum", vs) : vs \in UNION {[1..n -> Variants] : n \in 0..MaxVariants}}
    \cup {DeriveInput("Struct", <<>>), DeriveInput("Union", <<>>)}

Ok(v) == [ok |-> TRUE, value |-> v]

Err(e) == [ok |-> FALSE, error |-> e]

NotDependent(name) == [kind |-> "NotDependent", name |-> name]

OneRequiredVariant == [kind |-> "OneRequiredVariant", name |-> None]

NotEnumMessage == "ConditionType may only be derived on enums"

NotEnum == [kind |-> "Error", name |-> NotEnumMessage]

is_dependent(variant) ==
    \E a \in Range(variant.attrs) : \E p \in Range(a) : p = "dependent"

\* the loop of a verify_variants that lets a Ready or Succeeded variant carry
\* #[dependent]
RECURSIVE verify_loop_allows_dependent(_, _, _)
verify_loop_allows_dependent(variants, i, one_required) ==
    IF i > Len(variants)
    THEN IF ~one_required THEN Err(OneRequiredVariant) ELSE Ok(None)
    ELSE IF contains(REQUIRED_VARIANTS, variants[i].ident)
         THEN IF ~one_required
              THEN verify_loop_allows_dependent(variants, i + 1, TRUE)
              ELSE Err(OneRequiredVariant)
         ELSE verify_loop_allows_dependent(variants, i + 1, one_required)

verify_variants_allows_dependent(variants) ==
    verify_loop_allows_dependent(variants, 1, FALSE)

\* the for loop of verify_variants from variant i on, and the check after it
RECURSIVE verify_loop(_, _, _)
verify_loop(variants, i, one_required) ==
    IF i > Len(variants)
    THEN IF ~one_required THEN Err(OneRequiredVariant) ELSE Ok(None)
    ELSE IF contains(REQUIRED_VARIANTS, variants[i].ident)
         THEN IF is_dependent(variants[i])
              THEN Err(NotDependent(variants[i].ident))
              ELSE IF ~one_required
                   THEN verify_loop(variants, i + 1, TRUE)
                   ELSE Err(OneRequiredVariant)
         ELSE verify_loop(variants, i + 1, one_required)

verify_variants(variants) == verify_loop(variants, 1, FALSE)

\* variants.iter().find(..).unwrap(): the first variant named in
\* REQUIRED_VARIANTS
find_required(variants) ==
    LET i == CHOOSE i \in 1..Len(variants) :
                /\ contains(REQUIRED_VARIANTS, variants[i].ident)
                /\ \A j \in 1..(i - 1) : ~contains(REQUIRED_VARIANTS, variants[j].ident)
    IN variants[i].ident

RECURSIVE filter_dependents(_)
filter_dependents(variants) ==
    IF variants = <<>>
    THEN <<>>
    ELSE IF is_dependent(Head(variants))
         THEN <<Head(variants).ident>> \o filter_dependents(Tail(variants))
         ELSE filter_dependents(Tail(variants))

\* the generated impls: ConditionType::happy, ConditionType::dependents and
\* Default::default
Generated(happy_, dependents_) ==
    [happy |-> happy_, dependents |-> dependents_, default |-> happy_]

\* an inner_derive that takes the first variant of the enum as the happy one
inner_derive_first_variant_happy(ast) ==
    IF ast.data # "Enum"
    THEN Err(NotEnum)
    ELSE LET verified == verify_variants(ast.variants)
         IN IF ~verified.ok
            THEN verified
            ELSE Ok(Generated(ast.variants[1].ident, filter_dependents(ast.variants)))

inner_derive(ast) ==
    IF ast.data # "Enum"
    THEN Err(NotEnum)
    ELSE LET verified == verify_variants(ast.variants)
         IN IF ~verified.ok
            THEN verified
            ELSE Ok(Generated(find_required(ast.variants), filter_dependents(ast.variants)))

\* no derive has run
Underived == Err(None)

InitDerive ==
    /\ ctype = Underived
    /\ conds = <<>>
    /\ clock = 0
    /\ last = Unbuilt
    /\ prev = Unbuilt
    /\ calls = 0
    /\ panic = None
    /\ ret = None
    /\ sink_uri = None
    /\ built = Built("unbuilt", <<>>)

\* the expansion of #[derive(ConditionType)] on the declaration ast
Derive(ast) ==
    /\ built' = Built("derive", ast)
    /\ ctype' = inner_derive(ast)
    /\ last' = Call("derive", None, None, None)
    /\ prev' = last
    /\ UNCHANGED <<conds, clock, calls, panic, ret, sink_uri>>

\* a call on the impls of an accepted declaration, within the bound
DerivedCall == built.by = "derive" /\ ctype.ok /\ calls < MaxSeedCalls

DerivedHappy ==
    Return(ctype.value.happy, Call("happy", ctype.value.happy, None, None))

DerivedDefault ==
    Return(ctype.value.default, Call("default", ctype.value.default, None, None))

DerivedDependents ==
    Return(ctype.value.dependents, Call("dependents", ctype.value.happy, None, None))

\* ConditionManager::new on the derived type: ConditionSet::new and its assert
DerivedManagerNew ==
    /\ panic = None
    /\ last' = Call("ConditionManager::new", ctype.value.happy, None, None)
    /\ prev' = last
    /\ calls' = calls + 1
    /\ IF ConditionSet_new_panics(ctype.value)
       THEN panic' = NewSetMessage /\ UNCHANGED ret
       ELSE ret' = ConditionSet_new(ctype.value) /\ UNCHANGED panic
    /\ UNCHANGED <<conds, clock, built, ctype, sink_uri>>

NextDerive ==
    \/ built.by = "unbuilt" /\ \E ast \in DeriveInputs : Derive(ast)
    \/ DerivedCall /\ DerivedHappy
    \/ DerivedCall /\ DerivedDefault
    \/ DerivedCall /\ DerivedDependents
    \/ DerivedCall /\ DerivedManagerNew

SpecDerive == InitDerive /\ [][NextDerive]_vars

\* the positions of the variants named Ready or Succeeded
RequiredAt(variants) ==
    {i \in 1..Len(variants) : variants[i].ident \in {"Ready", "Succeeded"}}

\* the variant carries an attribute #[dependent]
HasDependentAttr(variant) ==
    \E k \in 1..Len(variant.attrs) : variant.attrs[k] = <<"dependent">>

RECURSIVE DeclaredDependents(_)
DeclaredDependents(variants) ==
    IF variants = <<>>
    THEN <<>>
    ELSE (IF HasDependentAttr(variants[1]) THEN <<variants[1].ident>> ELSE <<>>)
         \o DeclaredDependents(SubSeq(variants, 2, Len(variants)))

\* C35: for every accepted enum, happy() and Default::default() are the one
\* variant named Ready or Succeeded, dependents() lists the #[dependent]
\* variants in declaration order, happy() is not one of them, and
\* ConditionManager::new on the derived type does not panic; each call
\* returns what the generated impl holds.
C35_DerivedTypeIsWellFormed ==
    (built.by = "derive" /\ ctype.ok)
    => /\ \E i \in RequiredAt(built.seed.variants) :
            /\ ctype.value.happy = built.seed.variants[i].ident
            /\ ctype.value.default = built.seed.variants[i].ident
       /\ ctype.value.dependents = DeclaredDependents(built.seed.variants)
       /\ \A k \in 1..Len(ctype.value.dependents) :
            ctype.value.dependents[k] # ctype.value.happy
       /\ panic = None
       /\ last.op = "happy" => ret = ctype.value.happy
       /\ last.op = "default" => ret = ctype.value.happy
       /\ last.op = "dependents" => ret = DeclaredDependents(built.seed.variants)
       /\ last.op = "ConditionManager::new" =>
            ret = [happy |-> ctype.value.happy,
                   dependents |-> DeclaredDependents(built.seed.variants)]

\* ConditionManager::new was called on the type derived from an enum whose
\* happy variant Succeeded stands between two #[dependent] variants
C35_Witness ==
    /\ built.by = "derive"
    /\ ctype.ok
    /\ Len(built.seed.variants) = 3
    /\ built.seed.variants[1] = Variant("Important", <<<<"dependent">>>>)
    /\ built.seed.variants[2] = Variant("Succeeded", <<<<"doc">>>>)
    /\ built.seed.variants[3] = Variant("SinkProvided", <<<<"dependent">>>>)
    /\ last.op = "ConditionManager::new"
    /\ panic = None
    /\ ret.happy = "Succeeded"
    /\ ret.dependents = <<"Important", "SinkProvided">>

\* ------------------------------------------------------------ SinkManager
\* SourceStatus<MyCondition>::default() and the calls of a reconciler that
\* manages its sink through SinkManager and its other conditions through the
\* mark_<variant>, mark_<variant>_with_reason and mark_not_<variant> methods
\* the derive generates. Some(url) is written as the url.

Urls == {"http://url", "http://other"}

\* SourceConditionType::sinkprovided()
sinkprovided == "SinkProvided"

\* the variants a reconciler marks through the generated methods
OtherVariants == MyCondition \ {happy, sinkprovided}

SourceStatus(uri, st) == [sink_uri |-> uri, status |-> st]

mark_sink(s, uri, d) ==
    SourceStatus(uri, mark_true(s.status, sinkprovided, d))

\* mark_no_sink that leaves sink_uri as it was
mark_no_sink_keeps_uri(s, reason, message, d) ==
    SourceStatus(s.sink_uri, mark_false(s.status, sinkprovided, reason, message, d))

mark_no_sink(s, reason, message, d) ==
    SourceStatus(None, mark_false(s.status, sinkprovided, reason, message, d))

SinkCall(op, uri, reason, message) ==
    [op |-> op, type_ |-> sinkprovided, reason |-> reason, message |-> message,
     uri |-> uri]

\* a SinkManager call that returns () and leaves the SourceStatus s
CommitStatus(s, call) ==
    /\ calls < MaxCalls
    /\ panic = None
    /\ sink_uri' = s.sink_uri
    /\ conds' = s.status.conds
    /\ clock' = s.status.clock
    /\ last' = call
    /\ prev' = last
    /\ calls' = calls + 1
    /\ ret' = None
    /\ UNCHANGED <<panic, built, ctype>>

MarkSink(uri, d) ==
    CommitStatus(mark_sink(SourceStatus(sink_uri, Store(conds, clock)), uri, d),
                 SinkCall("mark_sink", uri, None, None))

MarkNoSink(p, d) ==
    CommitStatus(mark_no_sink(SourceStatus(sink_uri, Store(conds, clock)), p[1], p[2], d),
                 SinkCall("mark_no_sink", None, p[1], p[2]))

InitSink == InitWith(StrictTick)

NextSink ==
    \E d \in StrictTick \X StrictTick :
        \/ \E uri \in Urls : MarkSink(uri, d)
        \/ \E p \in Payloads : MarkNoSink(p, d)
        \/ \E t \in OtherVariants : MarkTrue(t, d)
        \/ \E t \in OtherVariants, p \in Payloads : MarkTrueWithReason(t, p, d)
        \/ \E t \in OtherVariants, p \in Payloads : MarkFalse(t, p, d)

SpecSink == InitSink /\ [][NextSink]_vars

\* C36: on a SourceStatus that starts from its default and whose
\* SinkProvided condition is written by mark_sink and mark_no_sink only, the
\* SinkProvided condition is True exactly when sink_uri is Some; mark_sink(uri)
\* leaves sink_uri = Some(uri) and SinkProvided True; mark_no_sink leaves
\* sink_uri = None, SinkProvided False and the resource not ready.
C36_SinkProvidedIffSinkUri ==
    /\ is_true(cond(sinkprovided)) <=> sink_uri # None
    /\ last.op = "mark_sink" =>
            /\ sink_uri = last.uri
            /\ sink_uri \in Urls
            /\ is_true(cond(sinkprovided))
    /\ last.op = "mark_no_sink" =>
            /\ sink_uri = None
            /\ is_false(cond(sinkprovided))
            /\ ~is_ready(conds)

\* a ready resource (Important marked, then the sink set) lost its sink
C36_Witness ==
    /\ calls = 3
    /\ prev.op = "mark_sink"
    /\ last.op = "mark_no_sink"
    /\ is_true(cond("Important"))
    /\ sink_uri = None
    /\ is_false(cond(sinkprovided))
    /\ is_false(cond(happy))

====
